---- MODULE Spec2Model ----
(***************************************************************************)
(* Model of the gRPC facade of lumina (grpc/src/client.rs, error.rs).      *)
(*                                                                         *)
(* GrpcClient holds a tonic Channel and an auth Interceptor.  Nine of its  *)
(* ten methods are declarations whose bodies the grpc_method attribute     *)
(* generates; broadcast_blob_tx is written out and delegates to            *)
(* broadcast_tx.  The generated body and the IntoGrpcParam /               *)
(* FromGrpcResponse conversions live outside src/ and are modelled from    *)
(* the specification's description of them (section 4.1, 4.2).             *)
(*                                                                         *)
(* Every method takes &mut self, so a safe caller runs the calls of one    *)
(* facade one after the other.  The model admits the larger set of         *)
(* schedules in which calls of one facade overlap at the transport: what   *)
(* holds of every overlapping schedule holds of the serialized ones.       *)
(*                                                                         *)
(* The module also models NodeStartConfig::into_node_builder               *)
(* (node-uniffi/src/types.rs, error.rs) as one run of its six steps.       *)
(***************************************************************************)
EXTENDS Integers, Sequences, FiniteSets, TLC

VARIABLES
    facade,     \* the GrpcClient: its two fields
    created,    \* the arguments new() was called with
    calls,      \* per call slot: the future of one method call
    inflight,   \* requests handed to the transport and not yet answered
    node        \* one run of NodeStartConfig::into_node_builder

vars == <<facade, created, calls, inflight, node>>

----------------------------------------------------------------------------
(* Bounds *)

MaxCalls == 2       \* call slots, i.e. calls that may overlap
MaxBlobs == 2       \* longest blob list a caller submits
MaxHeight == 1      \* largest height a caller asks for
MaxBootnodes == 2   \* longest bootnode list of a NodeStartConfig

Calls == 1..MaxCalls

----------------------------------------------------------------------------
(* Values *)

Channels == {"chanA", "chanB"}
Interceptors == {"authX"}

\* celestia_proto BroadcastMode, re-exported at client.rs:22
BroadcastMode == {"Unspecified", "Block", "Sync", "Async"}

\* RawTx values: body, auth_info as bytes, signatures as a list of bytes.
\* DefaultTx is RawTx::default(), whose encoding is empty.
DefaultTx == [body |-> <<>>, auth_info |-> <<>>, signatures |-> <<>>]
Txs == {DefaultTx,
        [body |-> <<1, 2>>, auth_info |-> <<3>>, signatures |-> << <<7>> >>],
        [body |-> <<4>>, auth_info |-> <<>>, signatures |-> << <<8>>, <<9>> >>]}

\* Blob values: namespace (version, id), data, share version, commitment.
Blobs == {[namespace |-> [version |-> 0, id |-> <<5>>], data |-> <<11, 12>>,
           share_version |-> 0, commitment |-> <<21>>],
          [namespace |-> [version |-> 1, id |-> <<6>>], data |-> <<13>>,
           share_version |-> 1, commitment |-> <<22>>]}

BlobLists == UNION {[1..n -> Blobs] : n \in 0..MaxBlobs}

Addresses == {"celestia1aa", "celestia1bb"}
Hashes == {"ABCD"}
Heights == (-1)..MaxHeight
RawTxBytes == {<<10, 1, 4>>}

----------------------------------------------------------------------------
(* Results and errors (error.rs) *)

Error == {"TonicError", "TendermintError", "CelestiaTypesError",
          "TendermintProtoError", "FailedToParseResponse",
          "UnexpectedResponseType", "TxEmptyBlobList"}

NoValue == [type |-> "none"]

\* status is the code of the tonic Status a TonicError wraps
Ok(v) == [ok |-> TRUE, val |-> v, err |-> "none", status |-> "none"]
Err(e) == [ok |-> FALSE, val |-> NoValue, err |-> e, status |-> "none"]

NoResult == [ok |-> FALSE, val |-> NoValue, err |-> "pending",
             status |-> "none"]

FromStatusDefaulted(status) == Ok(NoValue)

FromStatusOpaque(status) == Err("TonicError")

\* error.rs:13-15: TonicError(#[from] Status), transparent
FromStatus(status) == [Err("TonicError") EXCEPT !.status = status]

----------------------------------------------------------------------------
(* prost encoding of the messages broadcast_blob_tx serializes.  Scalars   *)
(* and lengths stay below 128, so each varint is one byte.  A field that   *)
(* holds its default value (empty bytes, empty string, zero) is omitted;   *)
(* an element of a repeated field is always written.                       *)

RECURSIVE Flatten(_)
Flatten(ss) == IF ss = <<>> THEN <<>> ELSE Head(ss) \o Flatten(Tail(ss))

\* key = (field number * 8) + wire type; wire type 2 is length-delimited
LenKey(field) == field * 8 + 2
VarintKey(field) == field * 8

LenDelimited(field, bytes) == <<LenKey(field), Len(bytes)>> \o bytes

BytesField(field, bytes) ==
    IF bytes = <<>> THEN <<>> ELSE LenDelimited(field, bytes)

VarintField(field, n) ==
    IF n = 0 THEN <<>> ELSE <<VarintKey(field), n>>

RepeatedField(field, items) ==
    Flatten([i \in DOMAIN items |-> LenDelimited(field, items[i])])

Utf8(s) ==
    CASE s = "BLOB" -> <<66, 76, 79, 66>>
      [] s = "blob" -> <<98, 108, 111, 98>>
      [] s = "Sync" -> <<83, 121, 110, 99>>
      [] OTHER -> <<>>

FromUtf8(bytes) ==
    CASE bytes = <<66, 76, 79, 66>> -> "BLOB"
      [] bytes = <<98, 108, 111, 98>> -> "blob"
      [] bytes = <<83, 121, 110, 99>> -> "Sync"
      [] OTHER -> ""

\* RawTx::encode_to_vec (client.rs:98): body = 1, auth_info = 2, signatures = 3
TxEncodeToVec(tx) ==
    BytesField(1, tx.body) \o BytesField(2, tx.auth_info)
        \o RepeatedField(3, tx.signatures)

\* impl From<Blob> for RawBlob, reached through Into::into (client.rs:96)
BlobIntoRaw(blob) ==
    [namespace_id |-> blob.namespace.id,
     data |-> blob.data,
     share_version |-> blob.share_version,
     namespace_version |-> blob.namespace.version]

\* RawBlob's encoding: namespace_id = 1, data = 2, share_version = 3,
\* namespace_version = 4
RawBlobEncode(raw) ==
    BytesField(1, raw.namespace_id) \o BytesField(2, raw.data)
        \o VarintField(3, raw.share_version)
        \o VarintField(4, raw.namespace_version)

\* RawBlobTx::encode_to_vec (client.rs:103): tx = 1, blobs = 2, type_id = 3
BlobTxEncodeToVec(blob_tx) ==
    BytesField(1, blob_tx.tx)
        \o RepeatedField(2, [i \in DOMAIN blob_tx.blobs |->
                                RawBlobEncode(blob_tx.blobs[i])])
        \o BytesField(3, Utf8(blob_tx.type_id))

----------------------------------------------------------------------------
(* prost decoding, as a receiver of the envelope performs it.              *)

\* The fields of a message, in order, as <<key, payload>>; a varint field's
\* payload is its value as one byte.
RECURSIVE ParseFields(_)
ParseFields(bytes) ==
    IF Len(bytes) < 2 THEN <<>>
    ELSE IF bytes[1] % 8 = 2
         THEN LET n == bytes[2]
              IN  <<[key |-> bytes[1], payload |-> SubSeq(bytes, 3, 2 + n)]>>
                      \o ParseFields(SubSeq(bytes, 3 + n, Len(bytes)))
         ELSE <<[key |-> bytes[1], payload |-> <<bytes[2]>>]>>
                  \o ParseFields(SubSeq(bytes, 3, Len(bytes)))

RECURSIVE PayloadsOf(_, _)
PayloadsOf(fields, key) ==
    IF fields = <<>> THEN <<>>
    ELSE (IF Head(fields).key = key THEN <<Head(fields).payload>> ELSE <<>>)
             \o PayloadsOf(Tail(fields), key)

\* a singular field: the last occurrence wins, absent means default
LastBytes(fields, key) ==
    LET ps == PayloadsOf(fields, key)
    IN  IF ps = <<>> THEN <<>> ELSE ps[Len(ps)]

LastVarint(fields, key) ==
    LET ps == PayloadsOf(fields, key)
    IN  IF ps = <<>> THEN 0 ELSE ps[Len(ps)][1]

RawBlobDecode(bytes) ==
    LET fs == ParseFields(bytes)
    IN  [namespace_id |-> LastBytes(fs, LenKey(1)),
         data |-> LastBytes(fs, LenKey(2)),
         share_version |-> LastVarint(fs, VarintKey(3)),
         namespace_version |-> LastVarint(fs, VarintKey(4))]

BlobTxDecode(bytes) ==
    LET fs == ParseFields(bytes)
        bs == PayloadsOf(fs, LenKey(2))
    IN  [tx |-> LastBytes(fs, LenKey(1)),
         blobs |-> [i \in DOMAIN bs |-> RawBlobDecode(bs[i])],
         type_id |-> FromUtf8(LastBytes(fs, LenKey(3)))]

----------------------------------------------------------------------------
(* GrpcClient (client.rs:25-43) *)

\* GrpcClient::new
New(grpc_channel, auth_interceptor) ==
    [grpc_channel |-> grpc_channel, auth_interceptor |-> auth_interceptor]

\* The methods of impl GrpcClient
Ops == {"get_min_gas_price", "get_latest_block", "get_block_by_height",
        "get_blob_params", "get_auth_params", "get_account", "get_accounts",
        "broadcast_tx", "broadcast_blob_tx", "get_tx"}

\* The stub method each #[grpc_method(...)] attribute names.
\* broadcast_blob_tx has none: it calls self.broadcast_tx (client.rs:103).
GrpcMethod(op) ==
    CASE op = "get_min_gas_price" -> "ConfigServiceClient::config"
      [] op = "get_latest_block" -> "TendermintServiceClient::get_latest_block"
      [] op = "get_block_by_height" ->
             "TendermintServiceClient::get_block_by_height"
      [] op = "get_blob_params" -> "BlobQueryClient::params"
      [] op = "get_auth_params" -> "AuthQueryClient::params"
      [] op = "get_account" -> "AuthQueryClient::account"
      [] op = "get_accounts" -> "AuthQueryClient::accounts"
      [] op = "broadcast_tx" -> "TxServiceClient::broadcast_tx"
      [] op = "get_tx" -> "TxServiceClient::get_tx"
      [] OTHER -> "none"

\* The domain type in each method's declared Result<_, Error>
DomainType(op) ==
    CASE op = "get_min_gas_price" -> "f64"
      [] op \in {"get_latest_block", "get_block_by_height"} -> "Block"
      [] op = "get_blob_params" -> "BlobParams"
      [] op = "get_auth_params" -> "AuthParams"
      [] op = "get_account" -> "Account"
      [] op = "get_accounts" -> "Vec<Account>"
      [] op \in {"broadcast_tx", "broadcast_blob_tx"} -> "TxResponse"
      [] op = "get_tx" -> "GetTxResponse"
      [] OTHER -> "none"

\* The parameters of a method call; a method reads only its own.
NoArgs == [height |-> 0, account |-> "", hash |-> "", tx_bytes |-> <<>>,
           mode |-> "Unspecified", tx |-> DefaultTx, blobs |-> <<>>]

----------------------------------------------------------------------------
(* broadcast_blob_tx (client.rs:83-104) *)

BLOB_TX_TYPE_ID_lowercase == "blob"

\* client.rs:90
BLOB_TX_TYPE_ID == "BLOB"

BuildBlobTxReversed(tx, blobs) ==
    [tx |-> TxEncodeToVec(tx),
     blobs |-> [i \in DOMAIN blobs |-> BlobIntoRaw(blobs[Len(blobs) + 1 - i])],
     type_id |-> BLOB_TX_TYPE_ID]

\* client.rs:96-101: the RawBlobTx
BuildBlobTx(tx, blobs) ==
    [tx |-> TxEncodeToVec(tx),
     blobs |-> [i \in DOMAIN blobs |-> BlobIntoRaw(blobs[i])],
     type_id |-> BLOB_TX_TYPE_ID]

BroadcastBlobTxArgsUnchecked(tx, blobs, mode) ==
    Ok([tx_bytes |-> BlobTxEncodeToVec(BuildBlobTx(tx, blobs)), mode |-> mode])

BroadcastBlobTxArgsOneIsEmpty(tx, blobs, mode) ==
    IF Len(blobs) <= 1
    THEN Err("TxEmptyBlobList")
    ELSE Ok([tx_bytes |-> BlobTxEncodeToVec(BuildBlobTx(tx, blobs)),
             mode |-> mode])

\* client.rs:92-103: the early return, or the arguments of self.broadcast_tx
BroadcastBlobTxArgs(tx, blobs, mode) ==
    IF blobs = <<>>
    THEN Err("TxEmptyBlobList")
    ELSE Ok([tx_bytes |-> BlobTxEncodeToVec(BuildBlobTx(tx, blobs)),
             mode |-> mode])

BroadcastBlobTxReturnRemapped(raw_result) ==
    IF raw_result.ok THEN raw_result ELSE Err("FailedToParseResponse")

\* client.rs:103: the awaited result of broadcast_tx is the method's value
BroadcastBlobTxReturn(raw_result) == raw_result

----------------------------------------------------------------------------
(* The body grpc_method generates, and the conversions it calls.           *)

\* BroadcastMode as the i32 of BroadcastTxRequest.mode
ModeNumber(mode) ==
    CASE mode = "Unspecified" -> 0
      [] mode = "Block" -> 1
      [] mode = "Sync" -> 2
      [] mode = "Async" -> 3

NoRequest == [height |-> 0, address |-> "", hash |-> "", tx_bytes |-> <<>>,
              mode |-> 0]

\* The errors a height that is no block height may be rejected with
InvalidHeightErrors == {"TendermintError", "CelestiaTypesError"}

IntoParameterUnchecked(op, args) ==
    CASE op = "get_block_by_height" ->
             {Ok([NoRequest EXCEPT !.height = args.height])}
      [] op = "get_account" -> {Ok([NoRequest EXCEPT !.address = args.account])}
      [] op = "get_tx" -> {Ok([NoRequest EXCEPT !.hash = args.hash])}
      [] op = "broadcast_tx" ->
             {Ok([NoRequest EXCEPT !.tx_bytes = args.tx_bytes,
                                   !.mode = ModeNumber(args.mode)])}
      [] OTHER -> {Ok(NoRequest)}

\* IntoGrpcParam::into_parameter: the outcomes of converting a method's
\* parameters into the request of its stub method
IntoParameter(op, args) ==
    CASE op = "get_block_by_height" ->
             IF args.height < 0
             THEN {Err(e) : e \in InvalidHeightErrors}
             ELSE {Ok([NoRequest EXCEPT !.height = args.height])}
      [] op = "get_account" -> {Ok([NoRequest EXCEPT !.address = args.account])}
      [] op = "get_tx" -> {Ok([NoRequest EXCEPT !.hash = args.hash])}
      [] op = "broadcast_tx" ->
             {Ok([NoRequest EXCEPT !.tx_bytes = args.tx_bytes,
                                   !.mode = ModeNumber(args.mode)])}
      [] OTHER -> {Ok(NoRequest)}

\* Client::with_interceptor(self.grpc_channel.clone(),
\*                          self.auth_interceptor.clone())
WithInterceptor(fac) ==
    [channel |-> fac.grpc_channel, interceptor |-> fac.auth_interceptor]

\* What the remote end may answer to a request
ReplyKinds == {"ok", "status", "malformed", "unexpected"}

\* The accounts that exist on the chain
OnChainAccounts == {"celestia1aa"}

\* Only the account queries answer with a payload whose type the response
\* message does not fix
RepliesTo(method) ==
    IF method \in {"AuthQueryClient::account", "AuthQueryClient::accounts"}
    THEN ReplyKinds
    ELSE ReplyKinds \ {"unexpected"}

NoReply == [ok |-> FALSE, status |-> "none", type |-> "none",
            well_formed |-> FALSE, request |-> NoRequest]

\* The tonic result of one stub call: Err(Status), or a response message
\* of the method's response type that answers the request
RemoteReply(m, rk) ==
    IF rk = "status"
    THEN [NoReply EXCEPT !.status = "Unavailable"]
    ELSE IF /\ rk = "ok"
            /\ m.method = "AuthQueryClient::account"
            /\ m.request.address \notin OnChainAccounts
    THEN [NoReply EXCEPT !.status = "NotFound"]
    ELSE [ok |-> TRUE, status |-> "none",
          type |-> IF rk = "unexpected" THEN "unexpected" ELSE m.method,
          well_formed |-> (rk = "ok"), request |-> m.request]

\* The error try_from_response gives for a response it cannot convert
ConversionError(op) ==
    IF op \in {"get_latest_block", "get_block_by_height"}
    THEN "TendermintError"
    ELSE "FailedToParseResponse"

\* response?.into_inner() followed by FromGrpcResponse::try_from_response
FromGrpcResponse(op, reply) ==
    IF ~reply.ok THEN FromStatus(reply.status)
    ELSE IF reply.type # GrpcMethod(op) THEN Err("UnexpectedResponseType")
    ELSE IF ~reply.well_formed THEN Err(ConversionError(op))
    ELSE Ok([type |-> DomainType(op), request |-> reply.request])

----------------------------------------------------------------------------
(* Calls *)

IdleCall == [pc |-> "idle", op |-> "none", args |-> NoArgs,
             delegated |-> <<>>, sent |-> <<>>, rk |-> "none",
             raw_result |-> NoResult, result |-> NoResult]

DroppedCall == [IdleCall EXCEPT !.pc = "dropped"]

\* The method whose generated body runs: broadcast_blob_tx runs
\* broadcast_tx with the arguments it built, every other method runs itself.
Delegation(op, args) ==
    IF op = "broadcast_blob_tx"
    THEN LET a == BroadcastBlobTxArgs(args.tx, args.blobs, args.mode)
         IN  IF a.ok
             THEN Ok([op |-> "broadcast_tx",
                      args |-> [NoArgs EXCEPT !.tx_bytes = a.val.tx_bytes,
                                              !.mode = a.val.mode]])
             ELSE a
    ELSE Ok([op |-> op, args |-> args])

\* What the caller gets from the result of the generated body
MethodReturn(op, raw_result) ==
    IF op = "broadcast_blob_tx"
    THEN BroadcastBlobTxReturn(raw_result)
    ELSE raw_result

\* The arguments broadcast_blob_tx passes to self.broadcast_tx
DelegatedArgs(op, d) ==
    IF op = "broadcast_blob_tx"
    THEN <<[tx_bytes |-> d.val.args.tx_bytes, mode |-> d.val.args.mode]>>
    ELSE <<>>

FailedCall(op, args, delegated, res) ==
    [IdleCall EXCEPT !.pc = "done", !.op = op, !.args = args,
                     !.delegated = delegated,
                     !.raw_result = res, !.result = res]

\* A method call up to its suspension point: validation, conversion,
\* encoding, and the request handed to the transport
InvokeCall(c, op, args) ==
    /\ calls[c].pc = "idle"
    /\ LET d == Delegation(op, args)
       IN  IF ~d.ok
           THEN /\ calls' = [calls EXCEPT ![c] = FailedCall(op, args, <<>>, d)]
                /\ UNCHANGED inflight
           ELSE \E p \in IntoParameter(d.val.op, d.val.args) :
                  IF ~p.ok
                  THEN /\ calls' = [calls EXCEPT ![c] =
                                      FailedCall(op, args,
                                                 DelegatedArgs(op, d), p)]
                       /\ UNCHANGED inflight
                  ELSE LET m == [id |-> c,
                                 method |-> GrpcMethod(d.val.op),
                                 request |-> p.val,
                                 stub |-> WithInterceptor(facade)]
                       IN  /\ calls' = [calls EXCEPT ![c] =
                                  [IdleCall EXCEPT
                                      !.pc = "awaiting", !.op = op,
                                      !.args = args,
                                      !.delegated = DelegatedArgs(op, d),
                                      !.sent = <<m>>]]
                           /\ inflight' = inflight \cup {m}

InvokeTakingInterceptor(c, op, args) ==
    /\ InvokeCall(c, op, args)
    /\ facade' = [facade EXCEPT !.auth_interceptor = "taken"]
    /\ UNCHANGED <<created, node>>

Invoke(c, op, args) ==
    /\ InvokeCall(c, op, args)
    /\ UNCHANGED <<facade, created, node>>

\* The inner method a call runs
InnerOp(op) == IF op = "broadcast_blob_tx" THEN "broadcast_tx" ELSE op

Finish(c, m, rk) ==
    LET raw == FromGrpcResponse(InnerOp(calls[c].op), RemoteReply(m, rk))
    IN  calls' = [calls EXCEPT ![c] =
                     [@ EXCEPT !.pc = "done", !.rk = rk, !.raw_result = raw,
                               !.result = MethodReturn(calls[c].op, raw)]]

RespondRetrying(c, rk) ==
    /\ calls[c].pc = "awaiting"
    /\ \E m \in inflight :
         /\ m.id = c
         /\ rk \in RepliesTo(m.method)
         /\ IF rk = "status" /\ Len(calls[c].sent) < 2
            THEN /\ calls' = [calls EXCEPT ![c].sent = Append(@, m)]
                 /\ UNCHANGED inflight
            ELSE /\ Finish(c, m, rk)
                 /\ inflight' = inflight \ {m}
    /\ UNCHANGED <<facade, created, node>>

RespondToAny(c, rk) ==
    /\ calls[c].pc = "awaiting"
    /\ \E m \in inflight :
         /\ rk \in RepliesTo(m.method)
         /\ Finish(c, m, rk)
         /\ inflight' = inflight \ {m}
    /\ UNCHANGED <<facade, created, node>>

\* The transport answers the call's request; the call resumes, converts the
\* response and returns
Respond(c, rk) ==
    /\ calls[c].pc = "awaiting"
    /\ \E m \in inflight :
         /\ m.id = c
         /\ rk \in RepliesTo(m.method)
         /\ Finish(c, m, rk)
         /\ inflight' = inflight \ {m}
    /\ UNCHANGED <<facade, created, node>>

DropLeavingRequest(c) ==
    /\ calls[c].pc = "awaiting"
    /\ calls' = [calls EXCEPT ![c] = DroppedCall]
    /\ UNCHANGED <<facade, created, inflight, node>>

\* The caller drops the future of a call suspended at the transport
Drop(c) ==
    /\ calls[c].pc = "awaiting"
    /\ calls' = [calls EXCEPT ![c] = DroppedCall]
    /\ inflight' = {m \in inflight : m.id # c}
    /\ UNCHANGED <<facade, created, node>>

\* The caller is done with a call's result; the slot takes a later call
Return(c) ==
    /\ calls[c].pc \in {"done", "dropped"}
    /\ calls' = [calls EXCEPT ![c] = IdleCall]
    /\ UNCHANGED <<facade, created, inflight, node>>

----------------------------------------------------------------------------
(* NodeStartConfig::into_node_builder (node-uniffi/src/types.rs:89-152)    *)

\* Option<T>
None == [some |-> FALSE]
Some(v) == [some |-> TRUE, val |-> v]

\* LuminaError (node-uniffi/src/error.rs:9-56), the variants used here
NodeOk(v) == [ok |-> TRUE, val |-> v, err |-> "none", msg |-> "none",
              cause |-> "none"]
NodeErr(kind, msg, cause) ==
    [ok |-> FALSE, val |-> NoValue, err |-> kind, msg |-> msg,
     cause |-> cause]

NodeNoResult == NodeErr("pending", "none", "none")

\* types.rs:121
Ed25519KeyLen == 32
\* types.rs:140
DefaultSyncBatchSize == 128

Platforms == {"ios", "android", "other"}

\* Bootnode strings a configuration may carry
BootnodeStrings == {"/ip4/10.0.0.1/tcp/2121", "boot.example:2121",
                    "/ip4/not-an-ip"}

\* str::parse::<Multiaddr>: the protocol path of an address, or its error
ParseMultiaddr(addr) ==
    CASE addr = "/ip4/10.0.0.1/tcp/2121" ->
             Ok(<<[proto |-> "ip4", arg |-> "10.0.0.1"],
                  [proto |-> "tcp", arg |-> "2121"]>>)
      [] OTHER -> Err("InvalidMultiaddr")

\* error.rs:66-72
FromMultiaddrError(addr) ==
    NodeErr("NetworkError", "Invalid multiaddr", addr)

\* types.rs:111-115: the addresses in order, or the error of the first
\* that does not parse
RECURSIVE ResolveBootnodes(_)
ResolveBootnodes(bootnodes) ==
    IF bootnodes = <<>> THEN NodeOk(<<>>)
    ELSE LET p == ParseMultiaddr(Head(bootnodes))
         IN  IF ~p.ok THEN FromMultiaddrError(Head(bootnodes))
             ELSE LET rest == ResolveBootnodes(Tail(bootnodes))
                  IN  IF ~rest.ok THEN rest
                      ELSE NodeOk(<<p.val>> \o rest.val)

\* Network::canonical_bootnodes
CanonicalBootnodes(network) ==
    <<<<[proto |-> "dnsaddr", arg |-> network]>>>>

\* types.rs:110-118
Bootnodes(config) ==
    IF config.bootnodes.some
    THEN ResolveBootnodes(config.bootnodes.val)
    ELSE NodeOk(CanonicalBootnodes(config.network))

KeypairOfAtMost32(key) ==
    IF key.some
    THEN IF key.val > Ed25519KeyLen
         THEN NodeErr("NetworkError", "Ed25519 private key must be 32 bytes",
                      "none")
         ELSE NodeOk([kind |-> "ed25519", from |-> "bytes"])
    ELSE NodeOk([kind |-> "ed25519", from |-> "generated"])

\* types.rs:120-132; a key is modelled by its length, and
\* Keypair::ed25519_from_bytes accepts every key of 32 bytes
KeypairOf(key) ==
    IF key.some
    THEN IF key.val # Ed25519KeyLen
         THEN NodeErr("NetworkError", "Ed25519 private key must be 32 bytes",
                      "none")
         ELSE NodeOk([kind |-> "ed25519", from |-> "bytes"])
    ELSE NodeOk([kind |-> "ed25519", from |-> "generated"])

\* types.rs:134-148
BuildNode(config, bootnodes, keypair) ==
    [store |-> "RedbStore", blockstore |-> "RedbBlockstore",
     network |-> config.network, bootnodes |-> bootnodes,
     keypair |-> keypair,
     sync_batch_size |-> IF config.batch_size.some
                         THEN config.batch_size.val
                         ELSE DefaultSyncBatchSize,
     sampling_window |-> config.syncing_window_secs,
     pruning_delay |-> config.pruning_delay_secs]

BootnodeLists == UNION {[1..n -> BootnodeStrings] : n \in 0..MaxBootnodes}

NodeStartConfigs ==
    [network : {"Mainnet"},
     bootnodes : {None} \cup {Some(l) : l \in BootnodeLists},
     syncing_window_secs : {None, Some(60)},
     pruning_delay_secs : {None},
     batch_size : {None, Some(64)},
     ed25519_secret_key_bytes :
         {None} \cup {Some(n) : n \in {Ed25519KeyLen - 1, Ed25519KeyLen,
                                       Ed25519KeyLen + 1}}]

NoConfig == [network |-> "none", bootnodes |-> None,
             syncing_window_secs |-> None, pruning_delay_secs |-> None,
             batch_size |-> None, ed25519_secret_key_bytes |-> None]

\* pc names the step the run is about to take
NodeIdle == [pc |-> "idle", platform |-> "none", config |-> NoConfig,
             steps |-> <<>>, base_path |-> "none",
             dir_created |-> FALSE, db_created |-> FALSE,
             store_ready |-> FALSE, bootnodes |-> <<>>,
             result |-> NodeNoResult]

FacadeUntouched == UNCHANGED <<facade, created, calls, inflight>>

NodeFails(step, err) ==
    node' = [node EXCEPT !.pc = "done", !.steps = Append(@, step),
                         !.result = err]

\* into_node_builder is called on a configuration
NodeStart(platform, config) ==
    /\ node.pc = "idle"
    /\ node' = [node EXCEPT !.pc = "base_path", !.platform = platform,
                            !.config = config]
    /\ FacadeUntouched

\* types.rs:90 with get_base_path_impl (types.rs:21-57)
GetBasePath ==
    /\ node.pc = "base_path"
    /\ \/ /\ node.platform = "ios"
          /\ \/ node' = [node EXCEPT !.pc = "create_dir",
                                     !.steps = Append(@, "base_path"),
                                     !.base_path = "ProjectDirs data_dir"]
             \/ NodeFails("base_path",
                    NodeErr("StorageError",
                        "Could not determine a platform-specific data directory",
                        "none"))
       \/ /\ node.platform = "android"
          /\ \E dir \in {"LUMINA_DATA_DIR",
                         "/data/data/com.example.lumina/files"} :
               node' = [node EXCEPT !.pc = "create_dir",
                                    !.steps = Append(@, "base_path"),
                                    !.base_path = dir]
       \/ /\ node.platform = "other"
          /\ NodeFails("base_path",
                 NodeErr("StorageError", "Unsupported platform", "none"))
    /\ FacadeUntouched

\* types.rs:93-95
CreateDataDir ==
    /\ node.pc = "create_dir"
    /\ \/ node' = [node EXCEPT !.pc = "create_db",
                               !.steps = Append(@, "create_dir"),
                               !.dir_created = TRUE]
       \/ NodeFails("create_dir",
              NodeErr("StorageError", "Failed to create data directory",
                      "none"))
    /\ FacadeUntouched

\* types.rs:96-100
CreateDatabase ==
    /\ node.pc = "create_db"
    /\ \/ node' = [node EXCEPT !.pc = "init_store",
                               !.steps = Append(@, "create_db"),
                               !.db_created = TRUE]
       \/ NodeFails("create_db",
              NodeErr("StorageInit", "Failed to create database", "none"))
    /\ FacadeUntouched

\* types.rs:102-108
InitStore ==
    /\ node.pc = "init_store"
    /\ \/ node' = [node EXCEPT !.pc = "bootnodes",
                               !.steps = Append(@, "init_store"),
                               !.store_ready = TRUE]
       \/ NodeFails("init_store",
              NodeErr("StorageInit", "Failed to initialize store", "none"))
    /\ FacadeUntouched

\* types.rs:110-118
ParseBootnodes ==
    /\ node.pc = "bootnodes"
    /\ LET b == Bootnodes(node.config)
       IN  IF b.ok
           THEN node' = [node EXCEPT !.pc = "keypair",
                                     !.steps = Append(@, "bootnodes"),
                                     !.bootnodes = b.val]
           ELSE NodeFails("bootnodes", b)
    /\ FacadeUntouched

\* types.rs:120-150
CheckKeyAndBuild ==
    /\ node.pc = "keypair"
    /\ LET k == KeypairOf(node.config.ed25519_secret_key_bytes)
       IN  IF k.ok
           THEN node' = [node EXCEPT
                            !.pc = "done",
                            !.steps = Append(@, "keypair"),
                            !.result = NodeOk(BuildNode(node.config,
                                                        node.bootnodes,
                                                        k.val))]
           ELSE NodeFails("keypair", k)
    /\ FacadeUntouched

NextNode ==
    \/ \E platform \in Platforms, config \in NodeStartConfigs :
           NodeStart(platform, config)
    \/ GetBasePath
    \/ CreateDataDir
    \/ CreateDatabase
    \/ InitStore
    \/ ParseBootnodes
    \/ CheckKeyAndBuild

----------------------------------------------------------------------------
(* Inputs *)

BlobA == CHOOSE b \in Blobs : b.share_version = 0
BlobB == CHOOSE b \in Blobs : b.share_version = 1
SignedTx == CHOOSE t \in Txs : Len(t.signatures) = 1

\* Every call of broadcast_blob_tx within the bounds
BlobInputs ==
    {[NoArgs EXCEPT !.tx = t, !.blobs = bs, !.mode = m] :
        t \in Txs, bs \in BlobLists, m \in BroadcastMode}

\* The calls a caller of the whole facade makes
Inputs(op) ==
    CASE op = "get_block_by_height" ->
             {[NoArgs EXCEPT !.height = h] : h \in Heights}
      [] op = "get_account" -> {[NoArgs EXCEPT !.account = a] : a \in Addresses}
      [] op = "get_tx" -> {[NoArgs EXCEPT !.hash = h] : h \in Hashes}
      [] op = "broadcast_tx" ->
             {[NoArgs EXCEPT !.tx_bytes = b, !.mode = m] :
                 b \in RawTxBytes, m \in {"Sync", "Block"}}
      [] op = "broadcast_blob_tx" ->
             {[NoArgs EXCEPT !.tx = SignedTx, !.blobs = bs, !.mode = "Sync"] :
                 bs \in {<<>>, <<BlobA, BlobB>>}}
      [] OTHER -> {NoArgs}

----------------------------------------------------------------------------
(* Specifications *)

Init ==
    /\ \E ch \in Channels, au \in Interceptors :
         /\ facade = New(ch, au)
         /\ created = [grpc_channel |-> ch, auth_interceptor |-> au]
    /\ calls = [c \in Calls |-> IdleCall]
    /\ inflight = {}
    /\ node = NodeIdle

\* Any caller of the facade
Next ==
    \E c \in Calls :
        \/ \E op \in Ops : \E args \in Inputs(op) : Invoke(c, op, args)
        \/ \E rk \in ReplyKinds : Respond(c, rk)
        \/ Drop(c)
        \/ Return(c)

Spec == Init /\ [][Next]_vars

\* A caller that submits blob transactions, one at a time
NextBlob ==
    \/ \E args \in BlobInputs : Invoke(1, "broadcast_blob_tx", args)
    \/ \E rk \in ReplyKinds : Respond(1, rk)
    \/ Drop(1)
    \/ Return(1)

SpecBlob == Init /\ [][NextBlob]_vars

\* One run of into_node_builder
SpecNode == Init /\ [][NextNode]_vars

TypeOK ==
    /\ facade \in [grpc_channel : Channels, auth_interceptor : Interceptors]
    /\ \A c \in Calls :
         /\ calls[c].pc \in {"idle", "awaiting", "done", "dropped"}
         /\ calls[c].op \in Ops \cup {"none"}
    /\ \A m \in inflight : m.id \in Calls

----------------------------------------------------------------------------
(* Properties *)

IsBlobCall(c) == calls[c].op = "broadcast_blob_tx"

RequestsOf(c) == {m \in inflight : m.id = c}

\* C1: broadcast_blob_tx with an empty blob list, whatever the transaction
\* and the mode, returns TxEmptyBlobList, and nothing of the call reaches
\* broadcast_tx or the transport.
C1_EmptyBlobListFailsLocally ==
    \A c \in Calls :
        IsBlobCall(c) /\ calls[c].args.blobs = <<>> =>
            /\ calls[c].pc = "done"
            /\ calls[c].result = Err("TxEmptyBlobList")
            /\ calls[c].delegated = <<>>
            /\ calls[c].sent = <<>>
            /\ RequestsOf(c) = {}

C1_Witness ==
    \E c \in Calls :
        /\ IsBlobCall(c) /\ calls[c].pc = "done"
        /\ calls[c].args.blobs = <<>>
        /\ calls[c].args.tx # DefaultTx
        /\ calls[c].args.mode = "Async"

\* C2: for a non-empty blob list, broadcast_blob_tx calls broadcast_tx once,
\* with bytes that are the canonical encoding of the envelope
\* {tx: encode(T), blobs: the wire form of each blob in the caller's order,
\* type_id: "BLOB"} and with the caller's mode; these bytes and this mode
\* are what the transport is handed.
C2_EnvelopePassedToBroadcast ==
    \A c \in Calls :
        IsBlobCall(c) /\ calls[c].args.blobs # <<>> =>
            /\ Len(calls[c].delegated) = 1
            /\ LET d == calls[c].delegated[1]
                   a == calls[c].args
               IN  /\ BlobTxDecode(d.tx_bytes) =
                          [tx |-> TxEncodeToVec(a.tx),
                           blobs |-> [i \in 1..Len(a.blobs) |->
                                         BlobIntoRaw(a.blobs[i])],
                           type_id |-> "BLOB"]
                   /\ BlobTxEncodeToVec(BlobTxDecode(d.tx_bytes)) = d.tx_bytes
                   /\ d.mode = a.mode
                   /\ Len(calls[c].sent) = 1
                   /\ calls[c].sent[1].method = "TxServiceClient::broadcast_tx"
                   /\ calls[c].sent[1].request.tx_bytes = d.tx_bytes
                   /\ calls[c].sent[1].request.mode = ModeNumber(a.mode)

C2_Witness ==
    \E c \in Calls :
        /\ IsBlobCall(c) /\ calls[c].pc = "awaiting"
        /\ calls[c].args.blobs = <<BlobA, BlobB>>
        /\ calls[c].args.tx = SignedTx
        /\ calls[c].args.mode = "Sync"
        /\ RequestsOf(c) # {}

\* C3: the type_id of every envelope broadcast_blob_tx hands to the
\* transport is "BLOB", whatever transaction, blobs and mode the caller gave.
C3_TypeMarkerIsBLOB ==
    /\ \A c \in Calls : \A i \in DOMAIN calls[c].sent :
           IsBlobCall(c) =>
               BlobTxDecode(calls[c].sent[i].request.tx_bytes).type_id = "BLOB"
    /\ \A m \in inflight :
           IsBlobCall(m.id) => BlobTxDecode(m.request.tx_bytes).type_id = "BLOB"

C3_Witness ==
    \E c \in Calls :
        /\ IsBlobCall(c) /\ calls[c].pc = "done"
        /\ calls[c].args.tx = DefaultTx
        /\ calls[c].args.blobs = <<BlobB, BlobB>>
        /\ calls[c].args.mode = "Unspecified"
        /\ Len(calls[c].sent) = 1

\* C4: with a non-empty blob list broadcast_blob_tx always reaches the
\* broadcast_tx call; an error it returns comes from that call's answer and
\* is never TxEmptyBlobList.
C4_NonEmptyReachesBroadcast ==
    \A c \in Calls :
        IsBlobCall(c) /\ calls[c].args.blobs # <<>> =>
            /\ Len(calls[c].delegated) = 1
            /\ Len(calls[c].sent) = 1
            /\ calls[c].pc = "awaiting" => RequestsOf(c) # {}
            /\ calls[c].pc = "done" =>
                   /\ calls[c].rk \in ReplyKinds
                   /\ calls[c].result.err # "TxEmptyBlobList"

C4_Witness ==
    \E c \in Calls :
        /\ IsBlobCall(c) /\ calls[c].pc = "done"
        /\ Len(calls[c].args.blobs) = 1
        /\ calls[c].rk = "status"
        /\ calls[c].result.err = "TonicError"

\* C5: for a non-empty blob list the value broadcast_blob_tx returns is the
\* value broadcast_tx returns for the request that was sent and the answer
\* that was received, success or error alike.
C5_ResultIsBroadcastTxResult ==
    \A c \in Calls :
        IsBlobCall(c) /\ calls[c].args.blobs # <<>> /\ calls[c].pc = "done" =>
            /\ calls[c].result = calls[c].raw_result
            /\ calls[c].result =
                   FromGrpcResponse("broadcast_tx",
                                    RemoteReply(calls[c].sent[1], calls[c].rk))

C5_Witness ==
    \E c \in Calls :
        /\ IsBlobCall(c) /\ calls[c].pc = "done"
        /\ calls[c].args.blobs = <<BlobB, BlobA>>
        /\ calls[c].rk = "malformed"
        /\ ~calls[c].result.ok
        /\ calls[c].result.err = "FailedToParseResponse"

\* C6: get_block_by_height with a negative height fails before the
\* transport is used, with an error that is no transport error; no request
\* carrying any height is sent for it.
C6_NegativeHeightFailsLocally ==
    \A c \in Calls :
        calls[c].op = "get_block_by_height" /\ calls[c].args.height < 0 =>
            /\ calls[c].pc = "done"
            /\ ~calls[c].result.ok
            /\ calls[c].result.err \in
                   Error \ {"TonicError", "FailedToParseResponse",
                            "UnexpectedResponseType"}
            /\ calls[c].sent = <<>>
            /\ RequestsOf(c) = {}

C6_Witness ==
    \E c \in Calls :
        /\ calls[c].op = "get_block_by_height" /\ calls[c].pc = "done"
        /\ calls[c].args.height = -1
        /\ ~calls[c].result.ok

\* C7: a call hands at most one request to the transport; a call whose
\* request the transport failed has returned an error after that one request.
C7_AtMostOneAttempt ==
    \A c \in Calls :
        /\ Len(calls[c].sent) <= 1
        /\ Cardinality(RequestsOf(c)) <= 1
        /\ calls[c].pc = "done" /\ calls[c].rk = "status" =>
               /\ ~calls[c].result.ok
               /\ calls[c].result.err = "TonicError"
               /\ Len(calls[c].sent) = 1
               /\ RequestsOf(c) = {}

C7_Witness ==
    \E c, d \in Calls :
        /\ c # d
        /\ calls[c].op = "get_account" /\ calls[c].pc = "done"
        /\ calls[c].rk = "status"
        /\ calls[d].op = "broadcast_blob_tx" /\ calls[d].pc = "done"
        /\ calls[d].rk = "status"

\* What a call made alone returns for these parameters when the remote end
\* answers its request with rk.
SequentialResults(op, args, rk) ==
    LET d == Delegation(op, args)
    IN  IF ~d.ok THEN {d}
        ELSE {IF ~p.ok THEN p
              ELSE MethodReturn(op,
                      FromGrpcResponse(d.val.op,
                          RemoteReply([method |-> GrpcMethod(d.val.op),
                                       request |-> p.val], rk))) :
              p \in IntoParameter(d.val.op, d.val.args)}

C9_FacadeUnchanged ==
    /\ DOMAIN facade = {"grpc_channel", "auth_interceptor"}
    /\ facade.grpc_channel = created.grpc_channel
    /\ facade.auth_interceptor = created.auth_interceptor

C9_Witness ==
    \E c, d \in Calls :
        /\ calls[c].pc = "done" /\ calls[c].result.ok
        /\ calls[d].pc = "done" /\ calls[d].result.err = "TxEmptyBlobList"

WithoutCall(c, cs) == [cs EXCEPT ![c] = IdleCall]

\* C10: a step that drops a suspended call leaves the facade as it was, and
\* leaves the other calls and the transport as they are when the dropped
\* call is left out: what follows is what follows had it never been made.
C10_DropLeavesNoTrace ==
    [][\A c \in Calls :
          calls[c].pc = "awaiting" /\ calls'[c].pc = "dropped" =>
              /\ facade' = facade
              /\ WithoutCall(c, calls') = WithoutCall(c, calls)
              /\ calls'[c] = DroppedCall
              /\ inflight' = {m \in inflight : m.id # c}]_vars

C10_Witness ==
    \E c, d \in Calls :
        /\ calls[c].pc = "dropped"
        /\ calls[d].pc = "done" /\ calls[d].result.ok
        /\ inflight = {}

\* The errors a response that cannot be converted is rejected with
DecodeErrors == {"TendermintError", "TendermintProtoError",
                 "CelestiaTypesError", "FailedToParseResponse"}

\* C11: a call that has returned holds either a value of the method's
\* domain type built from the answer to its own request, or an Error of
\* error.rs with no value; a failed step gives the error of its kind:
\* transport TonicError, conversion a decode error, a payload of another
\* type UnexpectedResponseType, an empty blob list TxEmptyBlobList, and a
\* call that failed before the transport sent nothing.
C11_ValueOrErrorOfTheStep ==
    \A c \in Calls :
        calls[c].pc = "done" =>
            LET r == calls[c].result
                rk == calls[c].rk
            IN  /\ r.ok =>
                       /\ r.err = "none" /\ r.status = "none"
                       /\ r.val.type = DomainType(calls[c].op)
                       /\ r.val.request = calls[c].sent[1].request
                       /\ rk = "ok"
                /\ ~r.ok => r.val = NoValue /\ r.err \in Error
                /\ rk = "status" =>
                       ~r.ok /\ r.err = "TonicError" /\ r.status # "none"
                /\ rk = "malformed" => ~r.ok /\ r.err \in DecodeErrors
                /\ rk = "unexpected" =>
                       ~r.ok /\ r.err = "UnexpectedResponseType"
                /\ rk = "none" =>
                       /\ ~r.ok /\ calls[c].sent = <<>>
                       /\ r.err \in {"TxEmptyBlobList"} \cup InvalidHeightErrors
                /\ IsBlobCall(c) /\ calls[c].args.blobs = <<>> =>
                       r.err = "TxEmptyBlobList"

C11_Witness ==
    \E c, d \in Calls :
        /\ calls[c].pc = "done" /\ calls[c].op = "get_accounts"
        /\ calls[c].result.err = "UnexpectedResponseType"
        /\ calls[d].pc = "done" /\ calls[d].op = "get_latest_block"
        /\ calls[d].rk = "status" /\ calls[d].result.err = "TonicError"

\* C12: get_account for an address that is not on the chain never returns
\* a value; when the remote end answers the query the error returned is the
\* TonicError that wraps its NotFound status.
C12_AbsentAccountIsNotFound ==
    \A c \in Calls :
        /\ calls[c].op = "get_account"
        /\ calls[c].args.account \notin OnChainAccounts
        /\ calls[c].pc = "done"
        => /\ ~calls[c].result.ok
           /\ calls[c].result.val = NoValue
           /\ calls[c].result.err \in Error
           /\ calls[c].rk = "ok" =>
                  /\ calls[c].result.err = "TonicError"
                  /\ calls[c].result.status = "NotFound"

C12_Witness ==
    \E c \in Calls :
        /\ calls[c].op = "get_account" /\ calls[c].pc = "done"
        /\ calls[c].args.account = "celestia1bb"
        /\ calls[c].rk = "ok"
        /\ calls[c].result.status = "NotFound"

\* The steps of into_node_builder, in the order of types.rs:90-132
StepOrder == <<"base_path", "create_dir", "create_db", "init_store",
               "bootnodes", "keypair">>

StepErrors(step) ==
    CASE step \in {"base_path", "create_dir"} -> {"StorageError"}
      [] step \in {"create_db", "init_store"} -> {"StorageInit"}
      [] OTHER -> {"NetworkError"}

BadBootnodes(config) ==
    IF config.bootnodes.some
    THEN {i \in DOMAIN config.bootnodes.val :
             ~ParseMultiaddr(config.bootnodes.val[i]).ok}
    ELSE {}

BadKey(config) ==
    /\ config.ed25519_secret_key_bytes.some
    /\ config.ed25519_secret_key_bytes.val # 32

\* C13: into_node_builder takes its steps in the order base path, data
\* directory, database, store, bootnodes, key; it returns the error of the
\* first step that fails and takes no step after it.  It returns a builder
\* only after all six steps, with every supplied bootnode parsed and a
\* supplied key of 32 bytes; a storage error means bootnodes and key were
\* not looked at; a NetworkError means directory, database and store
\* exist, and it names the first bad bootnode before a bad key.
C13_StepsInOrderFirstErrorWins ==
    LET n == Len(node.steps)
        r == node.result
        cfg == node.config
    IN  /\ n <= Len(StepOrder)
        /\ node.steps = SubSeq(StepOrder, 1, n)
        /\ node.dir_created = (n >= 2 /\ ~(n = 2 /\ node.pc = "done"))
        /\ node.db_created => node.dir_created /\ n >= 3
        /\ node.store_ready => node.db_created /\ n >= 4
        /\ node.pc # "done" => r = NodeNoResult
        /\ node.pc = "done" /\ r.ok =>
               /\ n = Len(StepOrder)
               /\ BadBootnodes(cfg) = {} /\ ~BadKey(cfg)
               /\ node.dir_created /\ node.db_created /\ node.store_ready
               /\ cfg.bootnodes.some =>
                      Len(r.val.bootnodes) = Len(cfg.bootnodes.val)
        /\ node.pc = "done" /\ ~r.ok =>
               /\ n >= 1
               /\ r.err \in StepErrors(node.steps[n])
               /\ r.val = NoValue
        /\ node.pc = "done" /\ r.err \in {"StorageError", "StorageInit"} =>
               n <= 4 /\ node.bootnodes = <<>>
        /\ node.pc = "done" /\ r.err = "NetworkError" =>
               /\ node.dir_created /\ node.db_created /\ node.store_ready
               /\ n >= 5
               /\ BadBootnodes(cfg) # {} \/ BadKey(cfg)
               /\ BadBootnodes(cfg) # {} =>
                      /\ n = 5
                      /\ r.msg = "Invalid multiaddr"
                      /\ \E i \in BadBootnodes(cfg) :
                            /\ r.cause = cfg.bootnodes.val[i]
                            /\ \A j \in BadBootnodes(cfg) : i <= j
               /\ BadBootnodes(cfg) = {} =>
                      n = 6 /\ r.msg = "Ed25519 private key must be 32 bytes"
        /\ node.pc = "done" /\ (BadBootnodes(cfg) # {} \/ BadKey(cfg)) => ~r.ok

C13_Witness ==
    /\ node.pc = "done"
    /\ node.result.err = "NetworkError"
    /\ node.config.bootnodes =
           Some(<<"/ip4/10.0.0.1/tcp/2121", "/ip4/not-an-ip">>)
    /\ BadKey(node.config)
    /\ node.result.cause = "/ip4/not-an-ip"
    /\ node.dir_created /\ node.db_created

====
